---- MODULE Spec2Model ----
(***************************************************************************)
(* A model of converter/command.py of firestore-export-json: the command   *)
(* line driver (main, process_files, process_file, analyze_file,           *)
(* combine_file_analysis) and read_file, together with the two             *)
(* collaborators read_file calls whose code is in other modules of the     *)
(* package: records.RecordsReader (the framed record decoder) and          *)
(* utils.get_dest_dict (the tree slot locator).                            *)
(*                                                                         *)
(* Four specifications share the module:                                   *)
(*   Spec         main and process_files over a directory listing          *)
(*   SpecTree     read_file and analyze_file over the records of one file  *)
(*   SpecCombine  combine_file_analysis over a list of file analyses       *)
(*   SpecDecoder  the record reader over a sequence of chunks              *)
(***************************************************************************)
EXTENDS Integers, Sequences, FiniteSets, TLC

VARIABLES
    \* ---- main / process_files (Spec)
    args,                 \* the parsed command line of the current call of main
    listing,              \* what os.listdir(source_dir) returns, in its order
    dest_files,           \* the names of the files in dest_dir
    pc,                   \* where the current call of main is
    error,                \* the exception that ended the call ("none" if none)
    error_at,             \* the function that raised it
    exit_status,          \* the status given to sys.exit (0: sys.exit not called)
    files,                \* process_files: sorted(os.listdir(source_dir))
    idx,                  \* process_files: position of the for loop in files
    results,              \* process_files: the list of target_fn's results
    num_files,            \* module global
    num_files_processed,  \* module global
    combined,             \* main: combined_analysis, once computed
    handled,              \* log: the file names given to target_fn, in order
    opened,               \* log: the file names given to read_file, in order
    written,              \* log: the files written by this call of main
    deleted,              \* log: the files unlinked by this call of main
    mkdir_called,         \* log: Path(dest_dir).mkdir was called by this call
    listed,               \* log: os.listdir(source_dir) was called by this call
    progress,             \* log: the progress lines computed by this call
    eligible_done,        \* log: eligible files whose target_fn ran to its end
    runs,                 \* number of calls of main so far in this process
    \* ---- read_file / analyze_file (SpecTree)
    json_tree,            \* read_file: the tree built so far
    rd_records,           \* log: the (key, fields) of the records read so far
    rd_status,            \* "reading", "read", "analyzed", "TypeError"
    file_analysis,        \* analyze_file: the summary of the file
    \* ---- combine_file_analysis (SpecCombine)
    file_analysis_list,   \* the argument
    list0,                \* the argument as it was at the call
    combined_analysis,    \* the local of that name
    cidx,                 \* position of the outer for loop
    \* ---- records.RecordsReader (SpecDecoder)
    no_check_crc,         \* the reader's flag
    dec_consumed,         \* log: the chunks the reader took without raising
    dec_buffer,           \* the open buffer, if any
    dec_emitted,          \* the logical records yielded so far
    dec_status,           \* "reading", "done", "CorruptionError"
    dec_cause             \* why the reader raised

drvVars == <<args, listing, dest_files, pc, error, error_at, exit_status, files,
             idx, results, num_files, num_files_processed, combined, handled,
             opened, written, deleted, mkdir_called, listed, progress,
             eligible_done, runs>>
treeVars == <<json_tree, rd_records, rd_status, file_analysis>>
combVars == <<file_analysis_list, list0, combined_analysis, cidx>>
decVars == <<no_check_crc, dec_consumed, dec_buffer, dec_emitted, dec_status, dec_cause>>
vars == <<drvVars, treeVars, combVars, decVars>>

\* ------------------------------------------------------------------ bounds
MaxFiles == 3
MaxRuns == 2
MaxRecords == 3
MaxSummaries == 2
MaxChunks == 3

\* ------------------------------------------------------------ strings
\* A str is the sequence of its code points: sorted() and startswith() work
\* on those.
OutputPrefix == <<111, 117, 116, 112, 117, 116, 45>>
DotJson == <<46, 106, 115, 111, 110>>
AnalysisJson == <<97, 110, 97, 108, 121, 115, 105, 115>> \o DotJson
Name_a == <<97>>
Name_output0 == OutputPrefix \o <<48>>
Name_output1 == OutputPrefix \o <<49>>
Name_outputs == <<111, 117, 116, 112, 117, 116, 115>>
FileNames == {Name_a, Name_output0, Name_output1, Name_outputs}
Name_oldJson == <<111, 108, 100>> \o DotJson
Name_notesTxt == <<110, 111, 116, 101, 115, 46, 116, 120, 116>>

StartsWith(s, p) == Len(s) >= Len(p) /\ SubSeq(s, 1, Len(p)) = p
EndsWith(s, p) == Len(s) >= Len(p) /\ SubSeq(s, Len(s) - Len(p) + 1, Len(s)) = p
Eligible(filename) == StartsWith(filename, OutputPrefix)

RECURSIVE StrLess(_, _)
StrLess(a, b) ==
    IF a = <<>> THEN b # <<>>
    ELSE IF b = <<>> THEN FALSE
    ELSE IF a[1] < b[1] THEN TRUE
    ELSE IF a[1] > b[1] THEN FALSE
    ELSE StrLess(Tail(a), Tail(b))

RECURSIVE InsertSorted(_, _)
InsertSorted(x, s) ==
    IF s = <<>> THEN <<x>>
    ELSE IF StrLess(x, Head(s)) THEN <<x>> \o s
    ELSE <<Head(s)>> \o InsertSorted(x, Tail(s))

RECURSIVE SortedList(_)
SortedList(s) == IF s = <<>> THEN <<>> ELSE InsertSorted(Head(s), SortedList(Tail(s)))

\* the listing taken in the order os.listdir gives it
Unsorted(s) == s
\* files = sorted(os.listdir(source_dir))
sorted(s) == SortedList(s)

Range(s) == {s[i] : i \in 1..Len(s)}
\* the lists os.listdir can return: distinct names, any order
Listings == {s \in UNION {[1..n -> FileNames] : n \in 0..MaxFiles} :
                \A i, j \in 1..Len(s) : i # j => s[i] # s[j]}

\* ------------------------------------------------------------ the tree
\* A value of the tree is a scalar or a dict; json_tree itself is the
\* mapping of a dict.
EmptyMap == [x \in {} |-> 0]
Scalar(v) == [t |-> "s", v |-> v]
Dict(m) == [t |-> "d", m |-> m]

FieldNames == {"name", "Post"}
\* an entity key: a path of (kind, id_or_name) pairs, root first
Keys == {<<<<"User", "a">>>>, <<<<"User", "b">>>>, <<<<"Post", "a">>>>,
         <<<<"User", "a">>, <<"Post", "a">>>>}
\* an embedded entity with one property, as embedded_entity_to_dict gives it
EmbeddedDict == Dict("x" :> Scalar(1))
FieldValues == {Scalar(1), Scalar(2), EmbeddedDict}
\* the field maps a record can carry: one field, or both fields
FieldMaps == [{"name"} -> FieldValues]
             \cup [{"Post"} -> {Scalar(1), Scalar(2)}]
             \cup {[n \in FieldNames |-> Scalar(1)], [n \in FieldNames |-> Scalar(2)]}
Records == [key : Keys, data : FieldMaps]

KeyPath(key) == IF Len(key) = 1 THEN <<key[1][1], key[1][2]>>
                ELSE <<key[1][1], key[1][2], key[2][1], key[2][2]>>

\* dict.update: every item of data is stored, the other items are kept
DictUpdate(m, data) ==
    [n \in DOMAIN m \cup DOMAIN data |-> IF n \in DOMAIN data THEN data[n] ELSE m[n]]

\* get_dest_dict(key, json_tree) followed by data_dict.update(data): walk the
\* path, creating the missing dicts, and update the dict at its end.  A step
\* into a value that is no dict raises TypeError.
RECURSIVE UpdateAt(_, _, _)
UpdateAt(m, path, data) ==
    IF path = <<>> THEN [ok |-> TRUE, m |-> DictUpdate(m, data)]
    ELSE LET k == Head(path)
             child == IF k \in DOMAIN m THEN m[k] ELSE Dict(EmptyMap)
         IN IF child.t # "d" THEN [ok |-> FALSE, m |-> m]
            ELSE LET r == UpdateAt(child.m, Tail(path), data)
                 IN IF r.ok
                    THEN [ok |-> TRUE,
                          m |-> [n \in DOMAIN m \cup {k} |->
                                    IF n = k THEN Dict(r.m) ELSE m[n]]]
                    ELSE [ok |-> FALSE, m |-> m]

\* ---------------------------------------------------------- read_file
\* read_file's loop over the records of one file, from an empty tree
RECURSIVE ReadAll(_, _)
ReadAll(m, recs) ==
    IF recs = <<>> THEN [ok |-> TRUE, m |-> m]
    ELSE LET r == UpdateAt(m, KeyPath(Head(recs).key), Head(recs).data)
         IN IF r.ok THEN ReadAll(r.m, Tail(recs)) ELSE r

\* what a backup file holds, as far as read_file can tell: the reader raises
\* (CorruptionError), ParseFromString raises (DecodeError), or the records
RecUserA == [key |-> <<<<"User", "a">>>>, data |-> ("name" :> Scalar(1))]
RecUserB == [key |-> <<<<"User", "b">>>>, data |-> ("name" :> Scalar(2))]
RecPostA == [key |-> <<<<"Post", "a">>>>, data |-> ("name" :> Scalar(1))]
RecUserAPost == [key |-> <<<<"User", "a">>>>, data |-> ("Post" :> Scalar(2))]
RecChild == [key |-> <<<<"User", "a">>, <<"Post", "a">>>>, data |-> ("name" :> Scalar(1))]
FileContents ==
    {[outcome |-> "ok", records |-> rs] :
        rs \in {<<>>, <<RecUserA>>, <<RecUserA, RecUserB, RecPostA>>,
                <<RecUserAPost, RecChild>>}}
    \cup {[outcome |-> o, records |-> <<>>] : o \in {"CorruptionError", "DecodeError"}}

\* read_file(in_file, no_check_crc): the tree, or the exception raised
read_file(content) ==
    IF content.outcome # "ok" THEN [error |-> content.outcome, tree |-> EmptyMap]
    ELSE LET r == ReadAll(EmptyMap, content.records)
         IN IF r.ok THEN [error |-> "none", tree |-> r.m]
            ELSE [error |-> "TypeError", tree |-> EmptyMap]

\* analyze_file's loop over json_tree.items()
Analysis(tree, filename) ==
    [c \in DOMAIN tree |->
        [num_records |-> Cardinality(DOMAIN tree[c].m), source_files |-> <<filename>>]]

\* ------------------------------------------------ combine_file_analysis
\* a merge that stores the last analysis of a collection over the earlier ones
CombineOverwrite(comb, fa) ==
    [c \in DOMAIN comb \cup DOMAIN fa |-> IF c \in DOMAIN fa THEN fa[c] ELSE comb[c]]
\* one iteration of the outer loop: the inner loop over file_analysis.items()
CombineOne(comb, fa) ==
    [c \in DOMAIN comb \cup DOMAIN fa |->
        IF c \in DOMAIN fa
        THEN [num_records |->
                 (IF c \in DOMAIN comb THEN comb[c].num_records ELSE 0)
                 + fa[c].num_records,
              source_files |->
                 (IF c \in DOMAIN comb THEN comb[c].source_files ELSE <<>>)
                 \o fa[c].source_files]
        ELSE comb[c]]

RECURSIVE CombineFrom(_, _)
CombineFrom(comb, list) ==
    IF list = <<>> THEN comb ELSE CombineFrom(CombineOne(comb, Head(list)), Tail(list))

\* an element of process_files' results: None, or the dict analyze_file returns
None == [isNone |-> TRUE, d |-> EmptyMap]
Some(d) == [isNone |-> FALSE, d |-> d]

\* combine_file_analysis(results) as main calls it: file_analysis.items()
\* raises AttributeError on None
combine_file_analysis(list) ==
    IF \E i \in 1..Len(list) : list[i].isNone
    THEN [error |-> "AttributeError", combined |-> EmptyMap]
    ELSE [error |-> "none",
          combined |-> CombineFrom(EmptyMap, [i \in 1..Len(list) |-> list[i].d])]

\* ------------------------------------------------------------- main
\* converter.exceptions: the errors main's "except BaseError" catches
IsBaseError(e) == e \in {"ValidationError", "CorruptionError"}

ArgsSet == [source_is_dir : BOOLEAN, action : {"convert", "analyze"}, clean_dest : BOOLEAN]
JsonFiles(names) == {f \in names : EndsWith(f, DotJson)}
Ended == {"done", "exited", "crashed"}

\* an exception e leaves the function `at` and reaches main: "except BaseError"
\* prints it and calls sys.exit(1); any other exception leaves main
Raise(e, at) ==
    /\ error' = e
    /\ error_at' = at
    /\ pc' = IF IsBaseError(e) THEN "exited" ELSE "crashed"
    /\ exit_status' = IF IsBaseError(e) THEN 1 ELSE exit_status

\* the state a call of main starts from; the globals and dest_dir are given
FreshCall(a, l) ==
    /\ args = a
    /\ listing = l
    /\ pc = "start"
    /\ error = "none"
    /\ error_at = "none"
    /\ exit_status = 0
    /\ files = <<>>
    /\ idx = 1
    /\ results = <<>>
    /\ combined = EmptyMap
    /\ handled = <<>>
    /\ opened = <<>>
    /\ written = {}
    /\ deleted = {}
    /\ mkdir_called = FALSE
    /\ listed = FALSE
    /\ progress = <<>>
    /\ eligible_done = 0

IdleDriver ==
    /\ FreshCall([source_is_dir |-> TRUE, action |-> "analyze", clean_dest |-> FALSE], <<>>)
    /\ dest_files = {}
    /\ num_files = 0
    /\ num_files_processed = 0
    /\ runs = 1

IdleTree ==
    /\ json_tree = EmptyMap
    /\ rd_records = <<>>
    /\ rd_status = "reading"
    /\ file_analysis = EmptyMap

IdleCombine ==
    /\ file_analysis_list = <<>>
    /\ list0 = <<>>
    /\ combined_analysis = EmptyMap
    /\ cidx = 1

IdleDecoder ==
    /\ no_check_crc = FALSE
    /\ dec_consumed = <<>>
    /\ dec_buffer = [open |-> FALSE, data |-> <<>>]
    /\ dec_emitted = <<>>
    /\ dec_status = "reading"
    /\ dec_cause = "none"

Init ==
    /\ \E a \in ArgsSet, l \in Listings : FreshCall(a, l)
    /\ dest_files \in {{}, {Name_oldJson, Name_notesTxt}}
    /\ num_files = 0
    /\ num_files_processed = 0
    /\ runs = 1
    /\ IdleTree /\ IdleCombine /\ IdleDecoder

\* a main that makes the destination before it looks at the source
main_mkdir_first ==
    /\ pc = "start"
    /\ ~args.source_is_dir
    /\ mkdir_called' = TRUE
    /\ Raise("ValidationError", "main")
    /\ UNCHANGED <<args, listing, dest_files, files, idx, results, num_files,
                   num_files_processed, combined, handled, opened, written, deleted,
                   listed, progress, eligible_done, runs>>
    /\ UNCHANGED <<treeVars, combVars, decVars>>
\* main, lines 70-73: source_dir is no directory
main_validation_error ==
    /\ pc = "start"
    /\ ~args.source_is_dir
    /\ Raise("ValidationError", "main")
    /\ UNCHANGED <<args, listing, dest_files, files, idx, results, num_files,
                   num_files_processed, combined, handled, opened, written, deleted,
                   mkdir_called, listed, progress, eligible_done, runs>>
    /\ UNCHANGED <<treeVars, combVars, decVars>>

\* main, lines 74-90, and process_files, lines 106-111: the destination is
\* made and cleaned, the source is listed and sorted.  An unlink that raises
\* OSError leaves its file in place.
main_begin ==
    /\ pc = "start"
    /\ args.source_is_dir
    /\ mkdir_called' = TRUE
    /\ IF dest_files # {} /\ args.clean_dest
       THEN \E failed \in SUBSET JsonFiles(dest_files) :
                /\ deleted' = JsonFiles(dest_files) \ failed
                /\ dest_files' = dest_files \ deleted'
       ELSE UNCHANGED <<deleted, dest_files>>
    /\ listed' = TRUE
    /\ files' = sorted(listing)
    /\ num_files' = Len(sorted(listing))
    /\ results' = <<>>
    /\ idx' = 1
    /\ pc' = "loop"
    /\ UNCHANGED <<args, listing, error, error_at, exit_status, num_files_processed,
                   combined, handled, opened, written, progress, eligible_done, runs>>
    /\ UNCHANGED <<treeVars, combVars, decVars>>

\* process_file(source_dir, dest_dir, no_check_crc, files[idx]): one iteration
\* of process_files' loop in convert mode.  Line 132 reads the attribute
\* "value" of the int num_files_processed: AttributeError.
process_file ==
    /\ pc = "loop"
    /\ idx <= Len(files)
    /\ args.action = "convert"
    /\ LET filename == files[idx] IN
       /\ handled' = Append(handled, filename)
       /\ IF ~Eligible(filename)
          THEN /\ results' = Append(results, None)
               /\ idx' = idx + 1
               /\ UNCHANGED <<opened, written, dest_files, error, error_at, pc, exit_status>>
          ELSE \E content \in FileContents :
                 LET r == read_file(content) IN
                 /\ opened' = Append(opened, filename)
                 /\ IF r.error # "none"
                    THEN /\ Raise(r.error, "read_file")
                         /\ UNCHANGED <<written, dest_files>>
                    ELSE /\ written' = written \cup {filename \o DotJson}
                         /\ dest_files' = dest_files \cup {filename \o DotJson}
                         /\ Raise("AttributeError", "process_file")
                 /\ UNCHANGED <<results, idx>>
    /\ UNCHANGED <<args, listing, files, num_files, num_files_processed, combined,
                   deleted, mkdir_called, listed, progress, eligible_done, runs>>
    /\ UNCHANGED <<treeVars, combVars, decVars>>

\* analyze_file(source_dir, _, no_check_crc, files[idx]): one iteration of
\* process_files' loop in analyze mode
analyze_file ==
    /\ pc = "loop"
    /\ idx <= Len(files)
    /\ args.action = "analyze"
    /\ LET filename == files[idx] IN
       /\ handled' = Append(handled, filename)
       /\ IF ~Eligible(filename)
          THEN /\ results' = Append(results, None)
               /\ idx' = idx + 1
               /\ UNCHANGED <<opened, error, error_at, pc, exit_status,
                              num_files_processed, progress, eligible_done>>
          ELSE \E content \in FileContents :
                 LET r == read_file(content) IN
                 /\ opened' = Append(opened, filename)
                 /\ IF r.error # "none"
                    THEN /\ Raise(r.error, "read_file")
                         /\ UNCHANGED <<results, idx, num_files_processed, progress,
                                        eligible_done>>
                    ELSE /\ num_files_processed' = num_files_processed + 1
                         /\ progress' = IF num_files > 0
                                        THEN Append(progress,
                                                 [processed |-> num_files_processed + 1,
                                                  total |-> num_files])
                                        ELSE progress
                         /\ results' = Append(results, Some(Analysis(r.tree, filename)))
                         /\ idx' = idx + 1
                         /\ eligible_done' = eligible_done + 1
                         /\ UNCHANGED <<error, error_at, pc, exit_status>>
    /\ UNCHANGED <<args, listing, dest_files, files, num_files, combined, written,
                   deleted, mkdir_called, listed, runs>>
    /\ UNCHANGED <<treeVars, combVars, decVars>>

\* process_files, lines 114-117: the loop is over; the "processed" line
\* divides by num_files
process_files_return ==
    /\ pc = "loop"
    /\ idx > Len(files)
    /\ IF num_files = 0
       THEN /\ Raise("ZeroDivisionError", "process_files")
            /\ UNCHANGED progress
       ELSE /\ progress' = Append(progress, [processed |-> num_files_processed,
                                             total |-> num_files])
            /\ pc' = "returned"
            /\ UNCHANGED <<error, error_at, exit_status>>
    /\ UNCHANGED <<args, listing, dest_files, files, idx, results, num_files,
                   num_files_processed, combined, handled, opened, written, deleted,
                   mkdir_called, listed, eligible_done, runs>>
    /\ UNCHANGED <<treeVars, combVars, decVars>>

\* main, lines 93-99: in analyze mode the results are combined and
\* analysis.json is written
main_finish ==
    /\ pc = "returned"
    /\ IF args.action = "analyze"
       THEN LET c == combine_file_analysis(results) IN
            IF c.error # "none"
            THEN /\ Raise(c.error, "combine_file_analysis")
                 /\ UNCHANGED <<combined, written, dest_files>>
            ELSE /\ combined' = c.combined
                 /\ written' = written \cup {AnalysisJson}
                 /\ dest_files' = dest_files \cup {AnalysisJson}
                 /\ pc' = "done"
                 /\ UNCHANGED <<error, error_at, exit_status>>
       ELSE /\ pc' = "done"
            /\ UNCHANGED <<combined, written, dest_files, error, error_at, exit_status>>
    /\ UNCHANGED <<args, listing, files, idx, results, num_files, num_files_processed,
                   handled, opened, deleted, mkdir_called, listed, progress,
                   eligible_done, runs>>
    /\ UNCHANGED <<treeVars, combVars, decVars>>

\* main returned and is called again in the same process: the module
\* globals and the destination directory are as the last call left them
main_again ==
    /\ pc = "done"
    /\ runs < MaxRuns
    /\ runs' = runs + 1
    /\ \E a \in ArgsSet, l \in Listings :
          /\ args' = a
          /\ listing' = l
    /\ pc' = "start"
    /\ error' = "none"
    /\ error_at' = "none"
    /\ exit_status' = 0
    /\ files' = <<>>
    /\ idx' = 1
    /\ results' = <<>>
    /\ combined' = EmptyMap
    /\ handled' = <<>>
    /\ opened' = <<>>
    /\ written' = {}
    /\ deleted' = {}
    /\ mkdir_called' = FALSE
    /\ listed' = FALSE
    /\ progress' = <<>>
    /\ eligible_done' = 0
    /\ UNCHANGED <<dest_files, num_files, num_files_processed>>
    /\ UNCHANGED <<treeVars, combVars, decVars>>

Next ==
    \/ main_validation_error
    \/ main_begin
    \/ process_file
    \/ analyze_file
    \/ process_files_return
    \/ main_finish
    \/ main_again

Spec == Init /\ [][Next]_vars

\* ------------------------------------------- read_file, record by record
AnalyzedName == Name_output0

InitTree ==
    /\ IdleDriver /\ IdleTree /\ IdleCombine /\ IdleDecoder

\* read_file, lines 182-195: one record of the file
read_file_record ==
    /\ rd_status = "reading"
    /\ Len(rd_records) < MaxRecords
    /\ \E rec \in Records :
          LET r == UpdateAt(json_tree, KeyPath(rec.key), rec.data) IN
          /\ rd_records' = Append(rd_records, rec)
          /\ IF r.ok
             THEN /\ json_tree' = r.m
                  /\ UNCHANGED rd_status
             ELSE /\ rd_status' = "TypeError"
                  /\ UNCHANGED json_tree
    /\ UNCHANGED file_analysis
    /\ UNCHANGED <<drvVars, combVars, decVars>>

\* read_file, line 196: the reader is exhausted
read_file_return ==
    /\ rd_status = "reading"
    /\ rd_status' = "read"
    /\ UNCHANGED <<json_tree, rd_records, file_analysis>>
    /\ UNCHANGED <<drvVars, combVars, decVars>>

\* analyze_file, lines 145-152, on the tree read_file returned
analyze_file_tally ==
    /\ rd_status = "read"
    /\ file_analysis' = Analysis(json_tree, AnalyzedName)
    /\ rd_status' = "analyzed"
    /\ UNCHANGED <<json_tree, rd_records>>
    /\ UNCHANGED <<drvVars, combVars, decVars>>

NextTree ==
    \/ read_file_record
    \/ read_file_return
    \/ analyze_file_tally

SpecTree == InitTree /\ [][NextTree]_vars

\* --------------------------------- combine_file_analysis, file by file
SummaryFiles == {<<Name_output0>>, <<Name_output1, Name_output0>>}
SummaryEntries == [num_records : {1, 2}, source_files : SummaryFiles]
Summaries == UNION {[d -> SummaryEntries] : d \in SUBSET {"Users", "Orders"}}
SummaryLists == UNION {[1..n -> Summaries] : n \in 0..MaxSummaries}

InitCombine ==
    /\ file_analysis_list \in SummaryLists
    /\ list0 = file_analysis_list
    /\ combined_analysis = EmptyMap
    /\ cidx = 1
    /\ IdleDriver /\ IdleTree /\ IdleDecoder

\* lines 165-173: one file_analysis of the list
combine_step ==
    /\ cidx <= Len(file_analysis_list)
    /\ combined_analysis' = CombineOne(combined_analysis, file_analysis_list[cidx])
    /\ cidx' = cidx + 1
    /\ UNCHANGED <<file_analysis_list, list0>>
    /\ UNCHANGED <<drvVars, treeVars, decVars>>

NextCombine == combine_step

SpecCombine == InitCombine /\ [][NextCombine]_vars

\* ------------------------------------------------ records.RecordsReader
\* The reader at the level of chunks: the blocks and their padding are
\* below this model.  A chunk is its type, its payload and whether its
\* stored checksum matches.
ChunkTypes == {"FULL", "FIRST", "MIDDLE", "LAST"}
Payloads == {<<>>, <<1>>, <<2>>}
Chunks == [type : ChunkTypes, payload : Payloads, crc_ok : BOOLEAN]

Accept(buf, emit) == [raised |-> "none", buffer |-> buf, emit |-> emit]
Corrupt(buf, cause) == [raised |-> cause, buffer |-> buf, emit |-> <<>>]
Closed == [open |-> FALSE, data |-> <<>>]

\* a reader that drops a chunk that is out of sequence
ReaderStepLenient(buf, chunk, check) ==
    IF check /\ ~chunk.crc_ok THEN Corrupt(buf, "checksum")
    ELSE IF chunk.type = "FULL" THEN Accept(Closed, <<chunk.payload>>)
    ELSE IF chunk.type = "FIRST" THEN Accept([open |-> TRUE, data |-> chunk.payload], <<>>)
    ELSE IF chunk.type = "MIDDLE"
         THEN IF buf.open THEN Accept([open |-> TRUE, data |-> buf.data \o chunk.payload], <<>>)
              ELSE Accept(buf, <<>>)
    ELSE IF buf.open THEN Accept(Closed, <<buf.data \o chunk.payload>>)
         ELSE Accept(buf, <<>>)
\* what the reader does with the next chunk
ReaderStep(buf, chunk, check) ==
    IF check /\ ~chunk.crc_ok THEN Corrupt(buf, "checksum")
    ELSE IF chunk.type = "FULL"
         THEN IF buf.open THEN Corrupt(buf, "FULL with a buffer open")
              ELSE Accept(Closed, <<chunk.payload>>)
    ELSE IF chunk.type = "FIRST"
         THEN IF buf.open THEN Corrupt(buf, "FIRST with a buffer open")
              ELSE Accept([open |-> TRUE, data |-> chunk.payload], <<>>)
    ELSE IF chunk.type = "MIDDLE"
         THEN IF buf.open THEN Accept([open |-> TRUE, data |-> buf.data \o chunk.payload], <<>>)
              ELSE Corrupt(buf, "MIDDLE with no buffer open")
    ELSE IF buf.open THEN Accept(Closed, <<buf.data \o chunk.payload>>)
         ELSE Corrupt(buf, "LAST with no buffer open")

InitDecoder ==
    /\ no_check_crc \in BOOLEAN
    /\ dec_consumed = <<>>
    /\ dec_buffer = Closed
    /\ dec_emitted = <<>>
    /\ dec_status = "reading"
    /\ dec_cause = "none"
    /\ IdleDriver /\ IdleTree /\ IdleCombine

reader_chunk ==
    /\ dec_status = "reading"
    /\ Len(dec_consumed) < MaxChunks
    /\ \E chunk \in Chunks :
          LET r == ReaderStep(dec_buffer, chunk, ~no_check_crc) IN
          IF r.raised # "none"
          THEN /\ dec_status' = "CorruptionError"
               /\ dec_cause' = r.raised
               /\ UNCHANGED <<dec_consumed, dec_buffer, dec_emitted>>
          ELSE /\ dec_consumed' = Append(dec_consumed, chunk)
               /\ dec_buffer' = r.buffer
               /\ dec_emitted' = dec_emitted \o r.emit
               /\ UNCHANGED <<dec_status, dec_cause>>
    /\ UNCHANGED no_check_crc
    /\ UNCHANGED <<drvVars, treeVars, combVars>>

reader_end_of_stream ==
    /\ dec_status = "reading"
    /\ IF dec_buffer.open
       THEN /\ dec_status' = "CorruptionError"
            /\ dec_cause' = "end of stream with a buffer open"
       ELSE /\ dec_status' = "done"
            /\ UNCHANGED dec_cause
    /\ UNCHANGED <<no_check_crc, dec_consumed, dec_buffer, dec_emitted>>
    /\ UNCHANGED <<drvVars, treeVars, combVars>>

NextDecoder ==
    \/ reader_chunk
    \/ reader_end_of_stream

SpecDecoder == InitDecoder /\ [][NextDecoder]_vars

\* ================================================================ claims
HasIneligible(l) == \E i \in 1..Len(l) : ~Eligible(l[i])
HasEligible(l) == \E i \in 1..Len(l) : Eligible(l[i])
StrictlySorted(l) == \A i \in 1..(Len(l) - 1) : StrLess(l[i], l[i + 1])

\* C1: when the processing of one file raises (CorruptionError from the
\* reader, an error of the deserializer), the run does not abort: every file
\* of the list is still handled and process_files returns a result for the
\* whole list.
C1_RunSurvivesBadFile ==
    error \in {"CorruptionError", "DecodeError"} =>
        /\ pc \notin {"exited", "crashed"}
        /\ (pc \in {"returned", "done"} => Len(results) = Len(files))

\* C2: a file whose name does not start with "output-" is skipped and is no
\* error: it is never opened, nothing is written for it, it is in no
\* summary, and a run in analyze mode that holds such a file, and in which no
\* eligible file's own processing raises, ends without raising.
C2_SkipIsNotAnError ==
    /\ \A i \in 1..Len(handled) :
          ~Eligible(handled[i]) =>
              /\ handled[i] \notin Range(opened)
              /\ (handled[i] \o DotJson) \notin written
              /\ \A c \in DOMAIN combined : handled[i] \notin Range(combined[c].source_files)
    /\ (/\ args.action = "analyze"
        /\ HasIneligible(listing)
        /\ pc \in Ended
        /\ error_at \notin {"read_file", "main"})
       => pc = "done"

\* C3: in convert mode, over a listing with an eligible file and in which
\* read_file raises for no file, the run ends normally with exactly one
\* <filename>.json written per eligible file.
C3_ConvertCompletes ==
    (/\ args.action = "convert"
     /\ args.source_is_dir
     /\ HasEligible(listing)
     /\ pc \in Ended
     /\ error_at # "read_file")
    => /\ pc = "done"
       /\ written = {listing[i] \o DotJson : i \in {j \in 1..Len(listing) : Eligible(listing[j])}}

\* C8: process_files hands the files to target_fn in strictly increasing
\* lexicographic order of their names, whatever the order of the listing:
\* the names handled so far are the smallest ones of the listing, each once;
\* the i-th result belongs to the i-th name; when process_files returns every
\* name was handled; and the merged source_files lists are in that order.
ResultBelongsTo(r, f) ==
    /\ r.isNone <=> ~Eligible(f)
    /\ \A c \in DOMAIN r.d : r.d[c].source_files = <<f>>
C8_SortedOrder ==
    /\ StrictlySorted(handled)
    /\ Range(handled) \subseteq Range(listing)
    /\ \A f \in Range(listing) \ Range(handled) : \A g \in Range(handled) : StrLess(g, f)
    /\ Len(results) <= Len(handled)
    /\ \A i \in 1..Len(results) : ResultBelongsTo(results[i], handled[i])
    /\ pc \in {"returned", "done"} =>
          /\ Range(handled) = Range(listing)
          /\ Len(results) = Len(listing)
    /\ \A c \in DOMAIN combined : StrictlySorted(combined[c].source_files)
C8_Witness ==
    /\ pc = "done"
    /\ listing = <<Name_output1, Name_output0>>
    /\ handled = <<Name_output0, Name_output1>>
    /\ \E c \in DOMAIN combined : combined[c].source_files = <<Name_output0, Name_output1>>

\* C9: when source_dir is no directory, main raises ValidationError at once
\* and does nothing else: no mkdir of the destination, no unlink, no listing,
\* no file opened or written; the process exits with status 1.
C9_InvalidSourceNoWork ==
    (~args.source_is_dir /\ pc # "start") =>
        /\ pc = "exited"
        /\ error = "ValidationError"
        /\ exit_status = 1
        /\ ~mkdir_called
        /\ deleted = {}
        /\ ~listed
        /\ handled = <<>>
        /\ opened = <<>>
        /\ written = {}
C9_Witness ==
    /\ ~args.source_is_dir
    /\ pc = "exited"
    /\ args.clean_dest
    /\ JsonFiles(dest_files) # {}
    /\ listing # <<>>

\* C10: the progress counters are consistent over any sequence of calls:
\* every progress line has 0 <= processed <= total, the final line of a call
\* counts the eligible files of that call only, and computing it never
\* fails, an empty listing included.
C10_CountersConsistent ==
    /\ \A i \in 1..Len(progress) :
          /\ 0 <= progress[i].processed
          /\ progress[i].processed <= progress[i].total
    /\ error # "ZeroDivisionError"
    /\ pc = "returned" => progress[Len(progress)].processed = eligible_done

\* ------------------------------------------------------ claims on the tree
\* the value stored at a path of the tree, if there is one
RECURSIVE Lookup(_, _)
Lookup(m, path) ==
    IF path = <<>> THEN [found |-> TRUE, node |-> Dict(m)]
    ELSE IF Head(path) \notin DOMAIN m THEN [found |-> FALSE, node |-> Scalar(0)]
    ELSE LET c == m[Head(path)]
         IN IF Len(path) = 1 THEN [found |-> TRUE, node |-> c]
            ELSE IF c.t # "d" THEN [found |-> FALSE, node |-> Scalar(0)]
            ELSE Lookup(c.m, Tail(path))

RecordsOf(K) == {i \in 1..Len(rd_records) : rd_records[i].key = K}
WritersOf(K, n) == {i \in RecordsOf(K) : n \in DOMAIN rd_records[i].data}
Max(S) == CHOOSE x \in S : \A y \in S : y <= x

\* C5: after read_file has read the whole file, for every key K of a record
\* there is one document slot at K, and it holds, for every field written by
\* a record with key K, the value of the last such record.
C5_FieldMerge ==
    rd_status = "read" =>
        \A K \in Keys :
            RecordsOf(K) # {} =>
                LET slot == Lookup(json_tree, KeyPath(K)) IN
                /\ slot.found
                /\ slot.node.t = "d"
                /\ \A n \in FieldNames :
                      WritersOf(K, n) # {} =>
                          /\ n \in DOMAIN slot.node.m
                          /\ slot.node.m[n] = rd_records[Max(WritersOf(K, n))].data[n]

\* C7: for a file whose records all have single-pair keys, the summary
\* holds the collections of the file, num_records of collection C is the
\* number of records of the file whose kind is C, and source_files is the list
\* of the file's name.
RecordsOfKind(C) == {i \in 1..Len(rd_records) : rd_records[i].key[1][1] = C}
C7_RecordCount ==
    (rd_status = "analyzed" /\ \A i \in 1..Len(rd_records) : Len(rd_records[i].key) = 1)
    => /\ DOMAIN file_analysis = {rd_records[i].key[1][1] : i \in 1..Len(rd_records)}
       /\ \A C \in DOMAIN file_analysis :
             /\ file_analysis[C].num_records = Cardinality(RecordsOfKind(C))
             /\ file_analysis[C].source_files = <<AnalyzedName>>

\* -------------------------------------- claim on combine_file_analysis
RECURSIVE SumOf(_, _)
SumOf(c, n) ==
    IF n = 0 THEN 0
    ELSE SumOf(c, n - 1) + (IF c \in DOMAIN list0[n] THEN list0[n][c].num_records ELSE 0)
RECURSIVE FilesOf(_, _)
FilesOf(c, n) ==
    IF n = 0 THEN <<>>
    ELSE FilesOf(c, n - 1) \o (IF c \in DOMAIN list0[n] THEN list0[n][c].source_files ELSE <<>>)

\* C6: combine_file_analysis is additive: after the first n summaries, the
\* combined analysis holds exactly the collections of those summaries, each
\* with the sum of its num_records and the concatenation, in list order, of
\* its source_files; the summaries given are left as they were.
C6_Additive ==
    LET n == cidx - 1 IN
    /\ DOMAIN combined_analysis = UNION {DOMAIN list0[i] : i \in 1..n}
    /\ \A c \in DOMAIN combined_analysis :
          /\ combined_analysis[c].num_records = SumOf(c, n)
          /\ combined_analysis[c].source_files = FilesOf(c, n)
    /\ file_analysis_list = list0
C6_Witness ==
    /\ cidx > Len(file_analysis_list)
    /\ Len(file_analysis_list) = 2
    /\ \E c \in DOMAIN file_analysis_list[1] \cap DOMAIN file_analysis_list[2] :
          /\ combined_analysis[c].num_records = 4
          /\ Len(combined_analysis[c].source_files) = 3

\* ------------------------------------------------- claim on the reader
IsEnd(k) == dec_consumed[k].type \in {"FULL", "LAST"}
EndsUpTo(k) == {e \in 1..k : IsEnd(e)}
GroupStart(k) == 1 + (IF EndsUpTo(k - 1) = {} THEN 0 ELSE Max(EndsUpTo(k - 1)))
RECURSIVE PayloadsOf(_, _)
PayloadsOf(s, e) ==
    IF s > e THEN <<>> ELSE dec_consumed[s].payload \o PayloadsOf(s + 1, e)
WholeGroup(s, e) ==
    \/ s = e /\ dec_consumed[e].type = "FULL"
    \/ /\ s < e
       /\ dec_consumed[s].type = "FIRST"
       /\ dec_consumed[e].type = "LAST"
       /\ \A j \in (s + 1)..(e - 1) : dec_consumed[j].type = "MIDDLE"
OpenGroup(s, e) ==
    /\ dec_consumed[s].type = "FIRST"
    /\ \A j \in (s + 1)..e : dec_consumed[j].type = "MIDDLE"

\* C4: every record the reader yields is the payload of one FULL chunk, or
\* the payloads, in order, of one FIRST, the MIDDLE chunks after it and one
\* LAST, with no other chunk in between; a chunk out of that sequence, or the
\* end of the stream with a buffer open, raises CorruptionError: no chunk is
\* taken and dropped, and no record is yielded from a broken sequence.
C4_RecordFraming ==
    LET n == Len(dec_consumed)
        t == GroupStart(n + 1)
    IN
    /\ Len(dec_emitted) = Cardinality(EndsUpTo(n))
    /\ \A e \in EndsUpTo(n) :
          /\ WholeGroup(GroupStart(e), e)
          /\ dec_emitted[Cardinality(EndsUpTo(e))] = PayloadsOf(GroupStart(e), e)
    /\ IF t <= n
       THEN /\ OpenGroup(t, n)
            /\ dec_buffer = [open |-> TRUE, data |-> PayloadsOf(t, n)]
            /\ dec_status # "done"
       ELSE ~dec_buffer.open
    /\ dec_status = "CorruptionError" <=> dec_cause # "none"
C4_Witness ==
    /\ dec_status = "done"
    /\ Len(dec_consumed) = 3
    /\ dec_consumed[1].type = "FIRST"
    /\ dec_consumed[2].type = "MIDDLE"
    /\ dec_consumed[3].type = "LAST"
    /\ dec_emitted = <<<<1, 2, 1>>>>
====
